---- MODULE Spec2Model ----
(***************************************************************************)
(* Content-extraction pipeline of the web fetch/search skill               *)
(* (src/lib/converter.py).  Text is a sequence of one-character strings;   *)
(* positions in the operators below are 0-based as in Python, and the      *)
(* sequence index of position i is i + 1.                                  *)
(***************************************************************************)
EXTENDS Integers, Sequences, FiniteSets, TLC

VARIABLES pc, content, max_length, result, again, html, soup, main, fragment,
          swapped, refiltered, dom, base_url, resolved, markdown, output,
          backend, has_undetected, use_profile, max_content_length, driver,
          response, sessions, stopped, thrown, script, requested, engine,
          use_undetected, max_results, calls, loaded

\* the variables of truncate_content, of extract_main_content and of the
\* runs of the tag filter
truncateVars == <<content, max_length, result, again>>

extractVars == <<html, soup, main, fragment>>

filterVars == <<swapped, refiltered>>

\* the variables of html_to_markdown
markdownVars == <<dom, base_url, resolved, markdown, output>>

\* the variables of the conversion pipeline
pipelineVars == <<truncateVars, extractVars, filterVars, markdownVars>>

\* what a run of fetch.py, of search.py or of create_driver is given: the
\* script, the requested backend and engine, whether undetected-chromedriver
\* is installed, and the arguments
callVars ==
  <<script, requested, engine, has_undetected, use_undetected, use_profile,
    max_content_length, max_results>>

\* the variables of a backend function: the backend that serves the call,
\* its locals driver and result, the browser sessions started and those on
\* which quit() or stop() was invoked, the exception that reached its
\* handler, the driver creators called with their use_profile, and the page
\* the browser loaded
runVars ==
  <<backend, driver, response, sessions, stopped, thrown, calls, loaded>>

backendVars == <<callVars, runVars>>

vars ==
  <<pc, truncateVars, extractVars, filterVars, markdownVars, backendVars>>

(***************************************************************************)
(* Bounds of the model.                                                    *)
(***************************************************************************)
MaxTail == 4
MaxSuffix == 1
MaxSlack == 4
MaxNodes == 3

(***************************************************************************)
(* truncate_content (converter.py:151-174)                                 *)
(***************************************************************************)
NL == "\n"

Marker ==
  <<NL, NL, "[", "C", "o", "n", "t", "e", "n", "t", " ", "t", "r", "u", "n",
    "c", "a", "t", "e", "d", ".", ".", ".", "]">>

ThresholdNum == 4
ThresholdDen == 5

\* s[:n] for n >= 0
Prefix(s, n) == SubSeq(s, 1, IF n < Len(s) THEN n ELSE Len(s))

\* sub occurs in s at 0-based position i
OccursAt(s, sub, i) ==
  /\ i >= 0
  /\ i + Len(sub) <= Len(s)
  /\ \A j \in 1..Len(sub) : s[i + j] = sub[j]

RECURSIVE rfindFrom(_, _, _)
rfindFrom(s, sub, i) ==
  IF i < 0 THEN -1
  ELSE IF OccursAt(s, sub, i) THEN i
  ELSE rfindFrom(s, sub, i - 1)

\* str.rfind(sub): the highest position where sub occurs, -1 when it does not
rfind(s, sub) == rfindFrom(s, sub, Len(s) - Len(sub))

Max2(a, b) == IF a >= b THEN a ELSE b

\* `pos > max_length * 0.8`
OverThresholdLax(pos, L) == ThresholdDen * pos >= ThresholdNum * L
OverThresholdFound(pos, L) == pos >= 0
OverThreshold(pos, L) == ThresholdDen * pos > ThresholdNum * L

\* `len(content) <= max_length`
FitsStrict(s, L) == Len(s) < L
Fits(s, L) == Len(s) <= L

\* `truncated.rfind("\n\n")`
LastPara(truncated) == rfind(truncated, <<NL, NL>>)

\* max(rfind(". "), rfind(".\n"), rfind("? "), rfind("! "))
LastSentenceNoDotNL(truncated) ==
  Max2(rfind(truncated, <<".", " ">>),
       Max2(rfind(truncated, <<"?", " ">>), rfind(truncated, <<"!", " ">>)))
LastSentence(truncated) ==
  Max2(Max2(rfind(truncated, <<".", " ">>), rfind(truncated, <<".", NL>>)),
       Max2(rfind(truncated, <<"?", " ">>), rfind(truncated, <<"!", " ">>)))

\* `truncated[:last_para]`
ParagraphCut(truncated, last_para) == Prefix(truncated, last_para)

\* `truncated[:last_sentence + 1]`
SentenceCutBefore(truncated, last_sentence) == Prefix(truncated, last_sentence)
SentenceCut(truncated, last_sentence) == Prefix(truncated, last_sentence + 1)

\* `content[:max_length]`
CandidateWhole(s, L) == s
Candidate(s, L) == Prefix(s, L)

\* `if last_para > max_length * 0.8:` else the sentence branch
UseParagraphUnlessLaterSentence(truncated, last_para, L) ==
  /\ OverThreshold(last_para, L)
  /\ LastSentence(truncated) < last_para
UseParagraph(truncated, last_para, L) == OverThreshold(last_para, L)

truncate_content(s, L) ==
  IF Fits(s, L) THEN s
  ELSE LET truncated == Candidate(s, L)
           last_para == LastPara(truncated)
       IN IF UseParagraph(truncated, last_para, L)
          THEN ParagraphCut(truncated, last_para) \o Marker
          ELSE LET last_sentence == LastSentence(truncated)
               IN IF OverThreshold(last_sentence, L)
                  THEN SentenceCut(truncated, last_sentence) \o Marker
                  ELSE truncated \o Marker

(***************************************************************************)
(* Inputs of the truncation runs: a run of filler, a tail over the         *)
(* characters the truncator looks at, and a run of filler after it.        *)
(***************************************************************************)
Alphabet == {"a", " ", NL, ".", "?", "!"}

Pad(k) == [i \in 1..k |-> "a"]

\* lengths of the leading filler: none, and the lengths that put the tail
\* at, just beyond and well beyond 0.8 of the limits k + d
PadLengths == {0, 8, 9, 17}

Tails == UNION {[1..n -> Alphabet] : n \in 0..MaxTail}

NoText == <<>>

None == -1

\* the state of the components a scenario does not run
TruncateIdle ==
  /\ content = NoText
  /\ max_length = 0
  /\ result = NoText
  /\ again = NoText

ExtractIdle ==
  /\ html = <<>>
  /\ soup = {}
  /\ main = None
  /\ fragment = <<>>

FilterIdle ==
  /\ swapped = {}
  /\ refiltered = {}

\* null, and a value that is not null
Null == <<>>

Some(v) == <<v>>

BackendIdle ==
  /\ backend = "none"
  /\ has_undetected = FALSE
  /\ use_profile = TRUE
  /\ max_content_length = 0
  /\ driver = Null
  /\ response = Null
  /\ sessions = {}
  /\ stopped = {}
  /\ thrown = Null
  /\ script = "none"
  /\ requested = "none"
  /\ engine = "none"
  /\ use_undetected = TRUE
  /\ max_results = 0
  /\ calls = <<>>
  /\ loaded = Null

MarkdownIdle ==
  /\ dom = <<>>
  /\ base_url = NoText
  /\ resolved = <<>>
  /\ markdown = NoText
  /\ output = NoText

InitTruncate ==
  /\ pc = "input"
  /\ \E k \in PadLengths, t \in Tails, j \in 0..MaxSuffix, d \in 0..MaxSlack :
       /\ content = Pad(k) \o t \o Pad(j)
       /\ max_length = k + d
  /\ result = NoText
  /\ again = NoText
  /\ html = <<>>
  /\ soup = {}
  /\ main = None
  /\ fragment = <<>>
  /\ FilterIdle
  /\ MarkdownIdle
  /\ BackendIdle

\* markdown = truncate_content(markdown, max_content_length)
Truncate ==
  /\ pc = "input"
  /\ result' = truncate_content(content, max_length)
  /\ pc' = "truncated"
  /\ UNCHANGED <<content, max_length, again, extractVars, filterVars, markdownVars,
                 backendVars>>

\* a second application to the first result with the same limit
TruncateAgain ==
  /\ pc = "truncated"
  /\ again' = truncate_content(result, max_length)
  /\ pc' = "retruncated"
  /\ UNCHANGED <<content, max_length, result, extractVars, filterVars, markdownVars,
                 backendVars>>

NextTruncate == Truncate \/ TruncateAgain

SpecTruncate == InitTruncate /\ [][NextTruncate]_vars

(***************************************************************************)
(* extract_main_content (converter.py:23-62)                               *)
(*                                                                         *)
(* The parsed document is the sequence html of its elements in document    *)
(* order; html[n].parent is the index of the enclosing element, 0 for the  *)
(* BeautifulSoup object itself.  Every element carries its own text, so a  *)
(* serialised fragment is the sequence of the elements it contains.  soup  *)
(* is the set of elements still attached to the tree.                      *)
(***************************************************************************)
REMOVE_TAGS ==
  <<"script", "style", "nav", "header", "footer", "aside",
    "noscript", "iframe", "form", "button", "input">>

REMOVE_PATTERNS ==
  <<<<"n", "a", "v">>,
    <<"m", "e", "n", "u">>,
    <<"s", "i", "d", "e", "b", "a", "r">>,
    <<"f", "o", "o", "t", "e", "r">>,
    <<"h", "e", "a", "d", "e", "r">>,
    <<"c", "o", "o", "k", "i", "e">>,
    <<"b", "a", "n", "n", "e", "r">>,
    <<"a", "d", "v", "e", "r", "t", "i", "s", "e", "m", "e", "n", "t">>,
    <<"s", "o", "c", "i", "a", "l">>,
    <<"c", "o", "m", "m", "e", "n", "t">>,
    <<"r", "e", "l", "a", "t", "e", "d">>>>

\* attribute values the locator compares with
S_main == <<"m", "a", "i", "n">>
S_content == <<"c", "o", "n", "t", "e", "n", "t">>
S_main_content == <<"m", "a", "i", "n", "-", "c", "o", "n", "t", "e", "n", "t">>
S_post == <<"p", "o", "s", "t">>
S_article == <<"a", "r", "t", "i", "c", "l", "e">>

\* the elements the documents of the model are built from
ElementTable ==
  <<[name |-> "main", id |-> <<>>, class |-> <<>>, role |-> <<>>],
    [name |-> "article", id |-> <<>>, class |-> <<>>, role |-> <<>>],
    [name |-> "div", id |-> <<>>, class |-> <<>>, role |-> <<"m", "a", "i", "n">>],
    [name |-> "div", id |-> <<"c", "o", "n", "t", "e", "n", "t">>, class |-> <<>>, role |-> <<>>],
    [name |-> "div", id |-> <<"m", "a", "i", "n">>, class |-> <<>>, role |-> <<>>],
    [name |-> "div", id |-> <<"m", "a", "i", "n", "-", "c", "o", "n", "t", "e", "n", "t">>, class |-> <<>>, role |-> <<>>],
    [name |-> "div", id |-> <<>>, class |-> <<<<"e", "n", "t", "r", "y">>, <<"c", "o", "n", "t", "e", "n", "t">>>>, role |-> <<>>],
    [name |-> "div", id |-> <<>>, class |-> <<<<"p", "o", "s", "t">>>>, role |-> <<>>],
    [name |-> "div", id |-> <<>>, class |-> <<<<"a", "r", "t", "i", "c", "l", "e">>>>, role |-> <<>>],
    [name |-> "body", id |-> <<>>, class |-> <<>>, role |-> <<>>],
    [name |-> "nav", id |-> <<>>, class |-> <<>>, role |-> <<>>],
    [name |-> "div", id |-> <<"S", "i", "d", "e", "b", "a", "r">>, class |-> <<>>, role |-> <<>>],
    [name |-> "main", id |-> <<>>, class |-> <<<<"M", "a", "i", "n", "-", "N", "a", "v">>>>, role |-> <<>>],
    [name |-> "div", id |-> <<>>, class |-> <<<<"p", "o", "s", "t", "-", "c", "o", "n", "t", "e", "n", "t">>>>, role |-> <<>>],
    [name |-> "div", id |-> <<>>, class |-> <<>>, role |-> <<>>]>>

Kinds == 1..Len(ElementTable)

Element(n) == ElementTable[html[n].kind]

Upper ==
  <<"A", "B", "C", "D", "E", "F", "G", "H", "I", "J", "K", "L", "M", "N", "O",
    "P", "Q", "R", "S", "T", "U", "V", "W", "X", "Y", "Z">>

Lowercase ==
  <<"a", "b", "c", "d", "e", "f", "g", "h", "i", "j", "k", "l", "m", "n", "o",
    "p", "q", "r", "s", "t", "u", "v", "w", "x", "y", "z">>

Lower(c) ==
  IF \E i \in 1..Len(Upper) : Upper[i] = c
  THEN Lowercase[CHOOSE i \in 1..Len(Upper) : Upper[i] = c]
  ELSE c

\* re.compile(pattern, re.I).search(value)
SearchCaseSensitive(pattern, value) ==
  \E i \in 0..(Len(value) - Len(pattern)) : OccursAt(value, pattern, i)
Search(pattern, value) ==
  \E i \in 0..(Len(value) - Len(pattern)) :
     \A j \in 1..Len(pattern) : Lower(value[i + j]) = Lower(pattern[j])

\* find_all(id=regex): the id attribute is present and the regex finds a match
IdMatches(pattern, e) == e.id # <<>> /\ Search(pattern, e.id)

\* find_all(class_=regex): some class of the element matches
ClassMatches(pattern, e) ==
  \E i \in 1..Len(e.class) : Search(pattern, e.class[i])

\* the results of find_all for every entry of the two lists and every
\* element of the table, as sets of the pairs <<entry, element>> that match
TagHits ==
  UNION {IF ElementTable[k].name = REMOVE_TAGS[i] THEN {<<i, k>>} ELSE {} :
           i \in 1..Len(REMOVE_TAGS), k \in Kinds}

IdHits ==
  UNION {IF IdMatches(REMOVE_PATTERNS[i], ElementTable[k]) THEN {<<i, k>>} ELSE {} :
           i \in 1..Len(REMOVE_PATTERNS), k \in Kinds}

ClassHits ==
  UNION {IF ClassMatches(REMOVE_PATTERNS[i], ElementTable[k]) THEN {<<i, k>>} ELSE {} :
           i \in 1..Len(REMOVE_PATTERNS), k \in Kinds}

\* the elements of the subtree rooted at n (n and its descendants)
RECURSIVE Within(_, _)
Within(n, root) ==
  IF n = root THEN TRUE
  ELSE IF n = 0 THEN FALSE
  ELSE Within(html[n].parent, root)

Subtree(n) == {d \in 1..Len(html) : Within(d, n)}

\* tag.decompose() for every tag of a find_all result
DecomposeSelf(tree, tags) == tree \ tags
DecomposeFirst(tree, tags) ==
  IF tags = {} THEN tree
  ELSE tree \ Subtree(CHOOSE t \in tags : \A k \in tags : t <= k)
Decompose(tree, tags) == tree \ UNION {Subtree(t) : t \in tags}

\* for tag_name in REMOVE_TAGS: for tag in soup.find_all(tag_name): tag.decompose()
RECURSIVE RemoveTags(_, _)
RemoveTags(tree, i) ==
  IF i > Len(REMOVE_TAGS) THEN tree
  ELSE RemoveTags(
         Decompose(tree, {n \in tree : <<i, html[n].kind>> \in TagHits}),
         i + 1)

\* for pattern in REMOVE_PATTERNS: decompose find_all(id=regex), then
\* find_all(class_=regex)
RECURSIVE RemovePatterns(_, _)
RemovePatterns(tree, i) ==
  IF i > Len(REMOVE_PATTERNS) THEN tree
  ELSE LET byId == Decompose(tree,
                     {n \in tree : <<i, html[n].kind>> \in IdHits})
           byClass == Decompose(byId,
                     {n \in byId : <<i, html[n].kind>> \in ClassHits})
       IN RemovePatterns(byClass, i + 1)

\* soup.find(...): the first matching element in document order, or None
First(hits) == IF hits = {} THEN None ELSE CHOOSE n \in hits : \A k \in hits : n <= k

FindName(tree, name) == First({n \in tree : Element(n).name = name})

FindRole(tree, value) == First({n \in tree : Element(n).role = value})

FindId(tree, value) == First({n \in tree : Element(n).id = value})

\* find(class_="content"): one of the element's classes is the string
FindClassSubstring(tree, value) ==
  First({n \in tree : \E i \in 1..Len(Element(n).class) :
                         SearchCaseSensitive(value, Element(n).class[i])})
FindClass(tree, value) ==
  First({n \in tree : \E i \in 1..Len(Element(n).class) :
                         Element(n).class[i] = value})

\* `a or b` on find results: a Tag is always truthy, None is not
Or(a, b) == IF a # None THEN a ELSE b

\* the selector chain of lines 45-55
MainContainerArticleFirst(tree) ==
  Or(FindName(tree, "article"),
  Or(FindName(tree, "main"),
  Or(FindRole(tree, S_main),
  Or(FindId(tree, S_content),
  Or(FindId(tree, S_main),
  Or(FindId(tree, S_main_content),
  Or(FindClass(tree, S_content),
  Or(FindClass(tree, S_post),
     FindClass(tree, S_article)))))))))
MainContainer(tree) ==
  Or(FindName(tree, "main"),
  Or(FindName(tree, "article"),
  Or(FindRole(tree, S_main),
  Or(FindId(tree, S_content),
  Or(FindId(tree, S_main),
  Or(FindId(tree, S_main_content),
  Or(FindClass(tree, S_content),
  Or(FindClass(tree, S_post),
     FindClass(tree, S_article)))))))))

\* `return str(body) if body else str(soup)`; 0 stands for the soup itself
FallbackBodyOnly(tree) == FindName(tree, "body")
Fallback(tree) ==
  LET body == FindName(tree, "body")
  IN IF body # None THEN body ELSE 0

\* str(container): the attached elements of the container in document order
RECURSIVE Serialise(_, _, _)
Serialise(tree, root, n) ==
  IF n > Len(html) THEN <<>>
  ELSE (IF n \in tree /\ Within(n, root) THEN <<n>> ELSE <<>>)
         \o Serialise(tree, root, n + 1)

Str(tree, root) == IF root = None THEN <<>> ELSE Serialise(tree, root, 1)

(***************************************************************************)
(* Documents of the model: up to MaxNodes elements, numbered in document   *)
(* order, each nested in an earlier element that is still open.            *)
(***************************************************************************)
\* the open elements after the last element of d: the soup, that element
\* and its ancestors
RECURSIVE OpenFrom(_, _)
OpenFrom(d, x) == IF x = 0 THEN {0} ELSE {x} \cup OpenFrom(d, d[x].parent)

InitExtract ==
  /\ pc = "parsing"
  /\ html = <<>>
  /\ soup = {}
  /\ main = None
  /\ fragment = <<>>
  /\ content = NoText
  /\ max_length = 0
  /\ result = NoText
  /\ again = NoText
  /\ FilterIdle
  /\ MarkdownIdle
  /\ BackendIdle

\* BeautifulSoup(html, "html.parser"): the parser attaches the next element
\* inside one of the open elements
ParseElement ==
  /\ pc = "parsing"
  /\ Len(html) < MaxNodes
  /\ \E k \in Kinds, a \in OpenFrom(html, Len(html)) :
        html' = Append(html, [kind |-> k, parent |-> a])
  /\ soup' = soup \cup {Len(html) + 1}
  /\ UNCHANGED <<pc, main, fragment, truncateVars, filterVars, markdownVars,
                 backendVars>>

\* extract_main_content on the parsed document: lines 31-42 remove the
\* unwanted elements, lines 44-62 find the container and return it as a string
ExtractMainContent ==
  /\ pc = "parsing"
  /\ soup' = RemovePatterns(RemoveTags(soup, 1), 1)
  /\ main' = MainContainer(soup')
  /\ fragment' = IF main' # None THEN Str(soup', main')
                 ELSE Str(soup', Fallback(soup'))
  /\ pc' = "returned"
  /\ UNCHANGED <<html, truncateVars, filterVars, markdownVars, backendVars>>

NextExtract == ParseElement \/ ExtractMainContent

SpecExtract == InitExtract /\ [][NextExtract]_vars

(***************************************************************************)
(* The tag filter of extract_main_content (lines 31-42) on its own: the    *)
(* pass of the code, the pass with the two loops in the other order, and a *)
(* second pass over the output of the first.                               *)
(***************************************************************************)
\* lines 32-34, then lines 37-42
TagFilter(tree) == RemovePatterns(RemoveTags(tree, 1), 1)

\* lines 37-42, then lines 32-34
TagFilterSwapped(tree) == RemoveTags(RemovePatterns(tree, 1), 1)

FilterDocument ==
  /\ pc = "parsing"
  /\ soup' = TagFilter(soup)
  /\ pc' = "filtered"
  /\ UNCHANGED <<html, main, fragment, truncateVars, filterVars, markdownVars,
                 backendVars>>

FilterSwapped ==
  /\ pc = "filtered"
  /\ swapped' = TagFilterSwapped(1..Len(html))
  /\ pc' = "swapped"
  /\ UNCHANGED <<extractVars, truncateVars, refiltered, markdownVars, backendVars>>

FilterAgain ==
  /\ pc = "swapped"
  /\ refiltered' = TagFilter(soup)
  /\ pc' = "refiltered"
  /\ UNCHANGED <<extractVars, truncateVars, swapped, markdownVars, backendVars>>

NextFilter == ParseElement \/ FilterDocument \/ FilterSwapped \/ FilterAgain

SpecFilter == InitExtract /\ [][NextFilter]_vars

(***************************************************************************)
(* The whitespace clean-up of html_to_markdown (converter.py:92-108)       *)
(***************************************************************************)
MaxText == 6

TAB == "\t"

\* the characters str.strip() and str.rstrip() remove
IsSpace(c) == c \in {" ", TAB, NL}

RECURSIVE rstrip(_)
rstrip(s) ==
  IF s # <<>> /\ IsSpace(s[Len(s)]) THEN rstrip(SubSeq(s, 1, Len(s) - 1))
  ELSE s

RECURSIVE lstrip(_)
lstrip(s) == IF s # <<>> /\ IsSpace(s[1]) THEN lstrip(Tail(s)) ELSE s

strip(s) == rstrip(lstrip(s))

\* markdown.split("\n"), line 93
RECURSIVE split(_)
split(s) ==
  IF \A i \in 1..Len(s) : s[i] # NL THEN <<s>>
  ELSE LET i == CHOOSE i \in 1..Len(s) :
                  s[i] = NL /\ \A j \in 1..(i - 1) : s[j] # NL
       IN  <<SubSeq(s, 1, i - 1)>> \o split(SubSeq(s, i + 1, Len(s)))

\* "\n".join(lines), line 108
RECURSIVE join(_)
join(lines) ==
  IF lines = <<>> THEN <<>>
  ELSE IF Len(lines) = 1 THEN lines[1]
  ELSE lines[1] \o <<NL>> \o join(Tail(lines))

\* line 102
SkipNever(is_empty, prev_empty) == FALSE
Skip(is_empty, prev_empty) == is_empty /\ prev_empty

\* the loop of lines 97-106 over the remaining lines
RECURSIVE cleaned(_, _)
cleaned(lines, prev_empty) ==
  IF lines = <<>> THEN <<>>
  ELSE LET line == rstrip(Head(lines))
           is_empty == strip(line) = <<>>
       IN  IF Skip(is_empty, prev_empty) THEN cleaned(Tail(lines), prev_empty)
           ELSE <<line>> \o cleaned(Tail(lines), is_empty)

\* lines 93-108
CleanWhitespaceNewlineAtEnd(text) ==
  join(cleaned(split(text), FALSE)) \o <<NL>>
CleanWhitespace(text) == strip(join(cleaned(split(text), FALSE)))

TextAlphabet == {"a", " ", NL}

Texts == UNION {[1..n -> TextAlphabet] : n \in 0..MaxText}

\* any text the renderer of lines 86-90 may have produced
InitNormalize ==
  /\ pc = "markdown"
  /\ markdown \in Texts
  /\ dom = <<>>
  /\ base_url = NoText
  /\ resolved = <<>>
  /\ output = NoText
  /\ TruncateIdle
  /\ ExtractIdle
  /\ FilterIdle
  /\ BackendIdle

Normalize ==
  /\ pc = "markdown"
  /\ output' = CleanWhitespace(markdown)
  /\ pc' = "normalized"
  /\ UNCHANGED <<dom, base_url, resolved, markdown, truncateVars, extractVars,
                 filterVars, backendVars>>

NextNormalize == Normalize

SpecNormalize == InitNormalize /\ [][NextNormalize]_vars

(***************************************************************************)
(* urljoin, as html_to_markdown uses it (converter.py:79-83).  A URL is    *)
(* the sequence of its lexical tokens: names and the delimiters ":", "//", *)
(* "/", "?" and "#"; "https://example.com/page" is                         *)
(* <<"https", ":", "//", "example.com", "/", "page">>.                     *)
(***************************************************************************)
Delimiters == {":", "//", "/", "?", "#"}

\* the schemes of urllib.parse.uses_relative that the inputs use
UsesRelative == {"", "http", "https"}

\* position of the first token of u, from position i on, that is in set D;
\* Len(u) + 1 when there is none
RECURSIVE FirstOf(_, _, _)
FirstOf(u, D, i) ==
  IF i > Len(u) THEN Len(u) + 1
  ELSE IF u[i] \in D THEN i
  ELSE FirstOf(u, D, i + 1)

\* urlsplit(u): scheme, netloc, path, query and fragment; "" and <<>> stand
\* for the absent parts
urlsplit(u) ==
  LET hasScheme == Len(u) >= 2 /\ u[1] \notin Delimiters /\ u[2] = ":"
      afterScheme == IF hasScheme THEN SubSeq(u, 3, Len(u)) ELSE u
      hasNetloc == afterScheme # <<>> /\ afterScheme[1] = "//"
      netlocEnd == FirstOf(afterScheme, {"/", "?", "#"}, 2)
      afterNetloc == IF hasNetloc
                     THEN SubSeq(afterScheme, netlocEnd, Len(afterScheme))
                     ELSE afterScheme
      hash == FirstOf(afterNetloc, {"#"}, 1)
      beforeHash == SubSeq(afterNetloc, 1, hash - 1)
      mark == FirstOf(beforeHash, {"?"}, 1)
  IN  [scheme |-> IF hasScheme THEN u[1] ELSE "",
       netloc |-> IF hasNetloc THEN SubSeq(afterScheme, 2, netlocEnd - 1)
                  ELSE <<>>,
       path |-> SubSeq(beforeHash, 1, mark - 1),
       query |-> SubSeq(beforeHash, mark + 1, Len(beforeHash)),
       fragment |-> SubSeq(afterNetloc, hash + 1, Len(afterNetloc))]

\* urlunsplit: the string of the parts
urlunsplit(scheme, netloc, path, query, frag) ==
  (IF scheme # "" THEN <<scheme, ":">> ELSE <<>>)
  \o (IF netloc # <<>> THEN <<"//">> \o netloc ELSE <<>>)
  \o path
  \o (IF query # <<>> THEN <<"?">> \o query ELSE <<>>)
  \o (IF frag # <<>> THEN <<"#">> \o frag ELSE <<>>)

\* path.split("/"): the segments between the slashes
RECURSIVE segmentsOf(_)
segmentsOf(path) ==
  IF path = <<>> THEN <<"">>
  ELSE IF path[1] = "/" THEN <<"">> \o segmentsOf(Tail(path))
  ELSE IF Len(path) = 1 THEN <<path[1]>>
  ELSE <<path[1]>> \o segmentsOf(SubSeq(path, 3, Len(path)))

\* "/".join(segments)
RECURSIVE joinSegments(_)
joinSegments(segments) ==
  IF segments = <<>> THEN <<>>
  ELSE (IF segments[1] = "" THEN <<>> ELSE <<segments[1]>>)
       \o (IF Len(segments) > 1 THEN <<"/">> \o joinSegments(Tail(segments))
           ELSE <<>>)

\* the loop that resolves "." and ".." segments
RECURSIVE resolveDots(_, _)
resolveDots(segments, resolved_path) ==
  IF segments = <<>> THEN resolved_path
  ELSE IF segments[1] = ".."
       THEN resolveDots(Tail(segments),
                        IF Len(resolved_path) > 1
                        THEN SubSeq(resolved_path, 1, Len(resolved_path) - 1)
                        ELSE resolved_path)
  ELSE IF segments[1] = "." THEN resolveDots(Tail(segments), resolved_path)
  ELSE resolveDots(Tail(segments), Append(resolved_path, segments[1]))

\* the empty segments strictly inside a segment list are dropped
dropEmptyInside(segments) ==
  IF Len(segments) <= 2 THEN segments
  ELSE <<segments[1]>>
       \o SelectSeq(SubSeq(segments, 2, Len(segments) - 1), LAMBDA x : x # "")
       \o <<segments[Len(segments)]>>

\* the path of urljoin for a reference with a non-empty path
mergePaths(bpath, path) ==
  LET parts == segmentsOf(bpath)
      base_parts == IF parts[Len(parts)] # ""
                    THEN SubSeq(parts, 1, Len(parts) - 1) ELSE parts
      segments == IF path[1] = "/" THEN segmentsOf(path)
                  ELSE dropEmptyInside(base_parts \o segmentsOf(path))
      resolved_path == resolveDots(segments, <<>>)
      closed == IF segments[Len(segments)] \in {".", ".."}
                THEN Append(resolved_path, "") ELSE resolved_path
  IN  IF joinSegments(closed) = <<>> THEN <<"/">> ELSE joinSegments(closed)

\* a buggy join that pastes the reference after the base
urljoinConcat(base, url) == base \o url
\* urllib.parse.urljoin(base, url)
urljoin(base, url) ==
  IF base = <<>> THEN url
  ELSE IF url = <<>> THEN base
  ELSE LET b == urlsplit(base)
           r == urlsplit(url)
           scheme == IF r.scheme = "" THEN b.scheme ELSE r.scheme
       IN  IF scheme # b.scheme \/ scheme \notin UsesRelative THEN url
           ELSE IF r.netloc # <<>>
                THEN urlunsplit(scheme, r.netloc, r.path, r.query, r.fragment)
           ELSE IF r.path = <<>>
                THEN urlunsplit(scheme, b.netloc, b.path,
                                IF r.query = <<>> THEN b.query ELSE r.query,
                                r.fragment)
           ELSE urlunsplit(scheme, b.netloc, mergePaths(b.path, r.path),
                           r.query, r.fragment)

(***************************************************************************)
(* html_to_markdown with the renderer of the repository,                   *)
(* _simple_html_to_markdown (converter.py:65-148).  A parsed document is   *)
(* the sequence of its nodes in document order, strings and tags, each     *)
(* with the position of its parent (0 for the top of the soup).            *)
(***************************************************************************)
MaxDom == 3

NoAttrs == [a \in {} |-> NoText]

String(text) == [name |-> "#text", attrs |-> NoAttrs, text |-> text]

Tag(name, attrs) == [name |-> name, attrs |-> attrs, text |-> NoText]

\* the nodes the documents are built from
NodeTable ==
  <<String(<<"x">>),
    String(<<" ">>),
    String(<<"a", " ", NL, NL, NL, "b">>),
    Tag("p", NoAttrs),
    Tag("pre", NoAttrs),
    Tag("a", NoAttrs),
    Tag("a", [href |-> NoText]),
    Tag("a", [href |-> <<"/", "page">>]),
    Tag("a", [href |-> <<"http", ":", "//", "other.org", "/", "a">>]),
    Tag("img", [src |-> <<"i.png">>]),
    Tag("br", NoAttrs)>>

\* html.parser gives no children to strings and void elements
Leaves == {"#text", "img", "br"}

\* the open elements a next node can be a child of: the last node and its
\* ancestors, without the leaves, and the top of the soup
RECURSIVE OpenTags(_, _)
OpenTags(d, x) ==
  IF x = 0 THEN {0}
  ELSE (IF d[x].name \in Leaves THEN {} ELSE {x}) \cup OpenTags(d, d[x].parent)

\* the values of the base_url argument: None, and the page's URL
BaseUrls == {NoText, <<"https", ":", "//", "example.com">>}

\* node j is node n or below it
RECURSIVE Under(_, _, _)
Under(d, j, n) == j = n \/ (j > n /\ d[j].parent # 0 /\ Under(d, d[j].parent, n))

\* the strings below node n from position j on, joined: element.get_text(),
\* with strip=True each string stripped
RECURSIVE TextFrom(_, _, _, _)
TextFrom(d, n, j, stripped) ==
  IF j > Len(d) \/ ~Under(d, j, n) THEN NoText
  ELSE (IF d[j].name = "#text"
        THEN (IF stripped THEN strip(d[j].text) ELSE d[j].text)
        ELSE NoText) \o TextFrom(d, n, j + 1, stripped)

get_text(d, n, stripped) == TextFrom(d, n, n + 1, stripped)

\* element.get(key, "")
get(e, key) == IF key \in DOMAIN e.attrs THEN e.attrs[key] ELSE NoText

\* lines 79-83: every a with an href and every img with a src
ResolveUrls(d, base) ==
  [i \in 1..Len(d) |->
     IF d[i].name = "a" /\ "href" \in DOMAIN d[i].attrs
     THEN [d[i] EXCEPT !.attrs = [href |-> urljoin(base, d[i].attrs.href)]]
     ELSE IF d[i].name = "img" /\ "src" \in DOMAIN d[i].attrs
     THEN [d[i] EXCEPT !.attrs = [src |-> urljoin(base, d[i].attrs.src)]]
     ELSE d[i]]

Headings == <<"h1", "h2", "h3", "h4", "h5", "h6">>

\* the grave accent, which a TLA+ string cannot hold
Backtick == "<grave>"

Fence == <<Backtick, Backtick, Backtick>>

\* lines 116-146: what the loop appends to result for node i
Appended(d, i) ==
  LET name == d[i].name
      text == get_text(d, i, TRUE)
  IN  IF name = "#text"
      THEN (IF strip(d[i].text) # NoText THEN <<strip(d[i].text)>> ELSE <<>>)
      ELSE IF \E level \in 1..6 : name = Headings[level]
      THEN LET level == CHOOSE l \in 1..6 : name = Headings[l]
           IN  IF text # NoText
               THEN <<<<NL>> \o [k \in 1..level |-> "#"] \o <<" ">> \o text
                      \o <<NL>>>>
               ELSE <<>>
      ELSE IF name = "p"
      THEN (IF text # NoText THEN <<<<NL>> \o text \o <<NL>>>> ELSE <<>>)
      ELSE IF name = "a"
      THEN (IF text # NoText /\ get(d[i], "href") # NoText
            THEN <<<<"[">> \o text \o <<"]", "(">> \o get(d[i], "href")
                   \o <<")">>>>
            ELSE <<>>)
      ELSE IF name = "li"
      THEN (IF text # NoText THEN <<<<"-", " ">> \o text>> ELSE <<>>)
      ELSE IF name \in {"pre", "code"}
      THEN (IF get_text(d, i, FALSE) # NoText
            THEN <<<<NL>> \o Fence \o <<NL>> \o get_text(d, i, FALSE)
                   \o <<NL>> \o Fence \o <<NL>>>>
            ELSE <<>>)
      ELSE IF name = "br" THEN <<<<NL>>>>
      ELSE <<>>

\* result after the loop of line 115 has seen the nodes from i on
RECURSIVE ResultFrom(_, _)
ResultFrom(d, i) ==
  IF i > Len(d) THEN <<>> ELSE Appended(d, i) \o ResultFrom(d, i + 1)

\* lines 111-148
simple_html_to_markdown(d) == join(ResultFrom(d, 1))

InitMarkdown ==
  /\ pc = "parsing"
  /\ MarkdownIdle
  /\ TruncateIdle
  /\ ExtractIdle
  /\ FilterIdle
  /\ BackendIdle

\* BeautifulSoup(html, "html.parser"), line 76, one node at a time
ParseNode ==
  /\ pc = "parsing"
  /\ Len(dom) < MaxDom
  /\ \E k \in DOMAIN NodeTable, p \in OpenTags(dom, Len(dom)) :
       dom' = Append(dom, [name |-> NodeTable[k].name,
                           attrs |-> NodeTable[k].attrs,
                           text |-> NodeTable[k].text,
                           parent |-> p])
  /\ UNCHANGED <<pc, base_url, resolved, markdown, output, truncateVars,
                 extractVars, filterVars, backendVars>>

\* html_to_markdown(html, base_url), lines 76-108, on the fallback branch of
\* line 90
HtmlToMarkdown ==
  /\ pc = "parsing"
  /\ \E b \in BaseUrls : base_url' = b
  /\ resolved' = IF base_url' # NoText THEN ResolveUrls(dom, base_url') ELSE dom
  /\ markdown' = simple_html_to_markdown(resolved')
  /\ output' = CleanWhitespace(markdown')
  /\ pc' = "converted"
  /\ UNCHANGED <<dom, truncateVars, extractVars, filterVars, backendVars>>

NextMarkdown == ParseNode \/ HtmlToMarkdown

SpecMarkdown == InitMarkdown /\ [][NextMarkdown]_vars

(***************************************************************************)
(* fetch_page of the two backends (selenium_backend.py:10-78,              *)
(* zendriver_backend.py:30-101) with create_driver (driver.py:34-201),     *)
(* one step per call into the browser library; each such call returns or   *)
(* raises.                                                                 *)
(***************************************************************************)
Backends == {"selenium", "zendriver"}

SessionNotCreated ==
  <<"S", "e", "s", "s", "i", "o", "n", " ", "n", "o", "t", " ", "c", "r", "e",
    "a", "t", "e", "d">>

CannotConnect ==
  <<"c", "a", "n", "n", "o", "t", " ", "c", "o", "n", "n", "e", "c", "t", " ",
    "t", "o", " ", "c", "h", "r", "o", "m", "e">>

TimedOut == <<"t", "i", "m", "e", "o", "u", "t">>

\* the exceptions the browser library and the conversion raise, all of them
\* subclasses of Exception
Exceptions ==
  {[type |-> "SessionNotCreatedException", msg |-> SessionNotCreated],
   [type |-> "WebDriverException", msg |-> CannotConnect],
   [type |-> "TimeoutException", msg |-> TimedOut]}

\* what a loaded page gives: driver.current_url, driver.title, the length of
\* driver.page_source, and the text the renderer of html_to_markdown makes
\* of its main content, before the whitespace clean-up
Pages ==
  {[final_url |-> "https://example.com/", title |-> "T", html_length |-> 0,
    rendered |-> NoText],
   [final_url |-> "https://example.com/a", title |-> "", html_length |-> 40,
    rendered |-> <<"a", ".", " ", "b", " ", NL, NL, NL, "c">>]}

\* selenium_backend.py:54-56 and zendriver_backend.py:78-79: the markdown of
\* the page, truncated by the selenium backend only
Convert(b, rendered, L) ==
  IF b = "selenium" THEN truncate_content(CleanWhitespace(rendered), L)
  ELSE CleanWhitespace(rendered)

\* fetch.py:58-61: the content of a zendriver result is truncated by main
MainContentAsReturned(b, text, L) == text
MainContent(b, text, L) ==
  IF b = "zendriver" /\ text # NoText THEN truncate_content(text, L) ELSE text

\* the values of max_content_length: one that truncates, and the default
Limits == {3, 50000}

\* the sessions: of uc.Chrome, of webdriver.Chrome and of zd.start
UndetectedSession == 1

StandardSession == 2

ZendriverSession == 3

\* str.lower()
lower(text) == [i \in 1..Len(text) |-> Lower(text[i])]

\* driver.py:69: the failures after which the standard driver is tried
ProfileLockedExact(e) ==
  \/ SearchCaseSensitive(lower(SessionNotCreated), e.msg)
  \/ SearchCaseSensitive(lower(CannotConnect), e.msg)
ProfileLocked(e) ==
  \/ SearchCaseSensitive(<<"s", "e", "s", "s", "i", "o", "n", " ", "n", "o",
                           "t", " ", "c", "r", "e", "a", "t", "e", "d">>,
                         lower(e.msg))
  \/ SearchCaseSensitive(<<"c", "a", "n", "n", "o", "t", " ", "c", "o", "n",
                           "n", "e", "c", "t">>, lower(e.msg))

\* "except Exception as e" of selenium_backend.py:67, zendriver_backend.py:90
CaughtWebDriverOnly(e) == e.type = "WebDriverException"
Caught(e) == e.type \in {x.type : x \in Exceptions}

\* "except Exception: pass" around quit() and stop(), lines 74-76
Swallowed(e) == e.type \in {x.type : x \in Exceptions}

\* f"{type(e).__name__}: {str(e)}", selenium_backend.py:68
ErrorMessageOnly(e) == e.msg
ErrorMessage(e) == <<e.type, ":", " ">> \o e.msg

EmptyDict == [k \in {} |-> 0]

\* lines 30-38
InitialResult(url) ==
  [success |-> FALSE, url |-> Some(url), final_url |-> Null, title |-> Null,
   content |-> Null, metadata |-> EmptyDict, error |-> Null]

\* the elapsed milliseconds of time.time(), which the model does not measure
Elapsed == 0

\* selenium_backend.py:60-65 and zendriver_backend.py:84-88
Metadata(b, text, page) ==
  IF b = "selenium"
  THEN [fetch_time_ms |-> Elapsed, content_length |-> Len(text),
        html_length |-> page.html_length, backend |-> "selenium"]
  ELSE [fetch_time_ms |-> Elapsed, content_length |-> Len(text),
        backend |-> "zendriver"]

\* result["metadata"]["fetch_time_ms"] = ..., line 69
WithFetchTime(metadata) ==
  [k \in DOMAIN metadata \cup {"fetch_time_ms"} |->
     IF k = "fetch_time_ms" THEN Elapsed ELSE metadata[k]]

\* fetch.py calls fetch_page of the backend of --backend, lines 48-69;
\* fetch_page calls create_driver with its defaults
InitFetch ==
  /\ pc = "create"
  /\ script = "fetch"
  /\ backend \in Backends
  /\ requested = backend
  /\ engine = "none"
  /\ max_results = 0
  /\ has_undetected \in BOOLEAN
  /\ use_undetected = TRUE
  /\ use_profile = TRUE
  /\ calls = <<>>
  /\ loaded = Null
  /\ max_content_length \in Limits
  /\ driver = Null
  /\ response = InitialResult("https://example.com")
  /\ sessions = {}
  /\ stopped = {}
  /\ thrown = Null
  /\ TruncateIdle
  /\ ExtractIdle
  /\ FilterIdle
  /\ MarkdownIdle

\* an exception leaves the try block of fetch_page
Raise(e) ==
  /\ thrown' = Some(e)
  /\ pc' = "except"

\* the except clause of create_driver, driver.py:67-78
UndetectedFailed(e) ==
  IF ProfileLocked(e)
  THEN /\ calls' = Append(calls, [creator |-> "standard", use_profile |-> FALSE])
       /\ pc' = "chrome"
       /\ UNCHANGED thrown
  ELSE /\ Raise(e)
       /\ UNCHANGED calls

\* create_driver(headless=..., timeout=...), selenium_backend.py:44 and
\* driver.py:59-86; create_browser, zendriver_backend.py:62
CreateDriver ==
  /\ pc = "create"
  /\ IF backend = "zendriver"
     THEN /\ pc' = "zd_start"
          /\ UNCHANGED calls
     ELSE IF use_undetected /\ has_undetected
     THEN /\ pc' = "uc_chrome"
          /\ calls' = <<[creator |-> "undetected", use_profile |-> use_profile]>>
     ELSE /\ pc' = "chrome"
          /\ calls' = <<[creator |-> "standard", use_profile |-> use_profile]>>
  /\ UNCHANGED <<callVars, backend, loaded, driver, response, sessions, stopped,
                 thrown, pipelineVars>>

\* driver = uc.Chrome(...), driver.py:134
UcChrome ==
  /\ pc = "uc_chrome"
  /\ \/ /\ sessions' = sessions \cup {UndetectedSession}
        /\ pc' = "uc_timeout"
        /\ UNCHANGED <<thrown, calls>>
     \/ /\ \E e \in Exceptions : UndetectedFailed(e)
        /\ UNCHANGED sessions
  /\ UNCHANGED <<callVars, backend, loaded, driver,
                 response, stopped, pipelineVars>>

\* driver.set_page_load_timeout(timeout), driver.py:139
UcSetTimeout ==
  /\ pc = "uc_timeout"
  /\ \/ /\ pc' = "uc_cdp"
        /\ UNCHANGED <<thrown, calls>>
     \/ \E e \in Exceptions : UndetectedFailed(e)
  /\ UNCHANGED <<callVars, backend, loaded, driver,
                 response, sessions, stopped, pipelineVars>>

\* driver.execute_cdp_cmd(...) and return driver, driver.py:142-151
UcExecuteCdp ==
  /\ pc = "uc_cdp"
  /\ \/ /\ driver' = Some(UndetectedSession)
        /\ pc' = "get"
        /\ UNCHANGED <<thrown, calls>>
     \/ /\ \E e \in Exceptions : UndetectedFailed(e)
        /\ UNCHANGED driver
  /\ UNCHANGED <<callVars, backend, loaded, response,
                 sessions, stopped, pipelineVars>>

\* driver = webdriver.Chrome(...), driver.py:198
Chrome ==
  /\ pc = "chrome"
  /\ \/ /\ sessions' = sessions \cup {StandardSession}
        /\ pc' = "timeout"
        /\ UNCHANGED thrown
     \/ /\ \E e \in Exceptions : Raise(e)
        /\ UNCHANGED sessions
  /\ UNCHANGED <<callVars, backend, loaded, calls, driver, response, stopped, pipelineVars>>

\* driver.set_page_load_timeout(timeout) and return driver, driver.py:199-201
SetTimeout ==
  /\ pc = "timeout"
  /\ \/ /\ driver' = Some(StandardSession)
        /\ pc' = "get"
        /\ UNCHANGED thrown
     \/ /\ \E e \in Exceptions : Raise(e)
        /\ UNCHANGED driver
  /\ UNCHANGED <<callVars, backend, loaded, calls, response, sessions, stopped, pipelineVars>>

\* browser = await zd.start(...), zendriver_backend.py:23-27
ZdStart ==
  /\ pc = "zd_start"
  /\ \/ /\ sessions' = sessions \cup {ZendriverSession}
        /\ driver' = Some(ZendriverSession)
        /\ pc' = "get"
        /\ UNCHANGED thrown
     \/ /\ \E e \in Exceptions : Raise(e)
        /\ UNCHANGED <<sessions, driver>>
  /\ UNCHANGED <<callVars, backend, loaded, calls, response, stopped, pipelineVars>>

\* driver.get(url), line 45; page = await browser.get(url); the search
\* functions load the search URL the same way, selenium_backend.py:108
Get ==
  /\ pc = "get"
  /\ \/ /\ pc' = IF script = "search" THEN "find" ELSE "read"
        /\ UNCHANGED thrown
     \/ \E e \in Exceptions : Raise(e)
  /\ UNCHANGED <<callVars, backend, loaded, calls, driver, response, sessions, stopped, pipelineVars>>

\* lines 50-65: final_url and title are stored as they are read; reading the
\* page source or converting it may still raise after that
ReadAndConvert ==
  /\ pc = "read"
  /\ \E seen \in Pages :
       /\ loaded' = Some(seen)
       /\ \/ /\ \E e \in Exceptions : Raise(e)
             /\ UNCHANGED response
          \/ /\ \E e \in Exceptions : Raise(e)
             /\ response' =
                  [response EXCEPT !.final_url = Some(seen.final_url),
                                   !.title = Some(seen.title)]
          \/ LET text == Convert(backend, seen.rendered, max_content_length)
             IN  /\ response' =
                      [response EXCEPT
                         !.final_url = Some(seen.final_url),
                         !.title = Some(seen.title),
                         !.content = Some(text),
                         !.success = TRUE,
                         !.metadata = Metadata(backend, text, seen)]
                 /\ pc' = "finally"
                 /\ UNCHANGED thrown
  /\ UNCHANGED <<callVars, backend, calls, driver, sessions, stopped,
                 pipelineVars>>

\* result["metadata"]["search_time_ms"] = ..., selenium_backend.py:176
WithSearchTime(metadata) ==
  [k \in DOMAIN metadata \cup {"search_time_ms"} |->
     IF k = "search_time_ms" THEN Elapsed ELSE metadata[k]]

\* lines 67-69 and 174-176; an exception the clause does not catch leaves
\* the function after the finally block
Except ==
  /\ pc = "except"
  /\ IF Caught(thrown[1])
     THEN /\ response' =
               [response EXCEPT
                  !.error = Some(ErrorMessage(thrown[1])),
                  !.metadata = IF script = "search" THEN WithSearchTime(@)
                               ELSE WithFetchTime(@)]
          /\ pc' = "finally"
     ELSE /\ pc' = "finally_raising"
          /\ UNCHANGED response
  /\ UNCHANGED <<callVars, backend, loaded, calls, driver, sessions, stopped, thrown, pipelineVars>>

\* lines 71-78: quit() or stop() is invoked on the driver the function
\* holds and returns or raises; then return result, or the exception that
\* is still in flight
Finally ==
  /\ pc \in {"finally", "finally_raising"}
  /\ stopped' = IF driver # Null THEN stopped \cup {driver[1]} ELSE stopped
  /\ \/ pc' = IF pc = "finally" THEN "returned" ELSE "raised"
     \/ /\ driver # Null
        /\ \E e \in Exceptions :
             pc' = IF Swallowed(e) /\ pc = "finally" THEN "returned"
                   ELSE "raised"
  /\ UNCHANGED <<callVars, backend, loaded, calls, driver, response, sessions, thrown, pipelineVars>>

\* fetch.py:58-72: main truncates the content of a zendriver result, then
\* prints the result
MainOutput ==
  /\ pc = "returned"
  /\ script = "fetch"
  /\ response' =
       IF response.content # Null
       THEN [response EXCEPT
               !.content = Some(MainContent(requested, response.content[1],
                                            max_content_length))]
       ELSE response
  /\ pc' = "printed"
  /\ UNCHANGED <<callVars, backend, loaded, calls, driver, sessions, stopped,
                 thrown, pipelineVars>>

NextFetch ==
  \/ CreateDriver
  \/ UcChrome
  \/ UcSetTimeout
  \/ UcExecuteCdp
  \/ Chrome
  \/ SetTimeout
  \/ ZdStart
  \/ Get
  \/ ReadAndConvert
  \/ Except
  \/ Finally
  \/ MainOutput

SpecFetch == InitFetch /\ [][NextFetch]_vars

(***************************************************************************)
(* create_driver on its own (driver.py:34-86), with every combination of   *)
(* its arguments use_undetected and use_profile; it has returned the       *)
(* driver when pc = "get" and raised when pc = "except".                   *)
(***************************************************************************)
InitCreateDriver ==
  /\ pc = "create"
  /\ script = "driver"
  /\ backend = "selenium"
  /\ requested = "selenium"
  /\ engine = "none"
  /\ max_results = 0
  /\ max_content_length = 0
  /\ has_undetected \in BOOLEAN
  /\ use_undetected \in BOOLEAN
  /\ use_profile \in BOOLEAN
  /\ calls = <<>>
  /\ loaded = Null
  /\ driver = Null
  /\ response = Null
  /\ sessions = {}
  /\ stopped = {}
  /\ thrown = Null
  /\ TruncateIdle
  /\ ExtractIdle
  /\ FilterIdle
  /\ MarkdownIdle

NextCreateDriver ==
  \/ CreateDriver
  \/ UcChrome
  \/ UcSetTimeout
  \/ UcExecuteCdp
  \/ Chrome
  \/ SetTimeout

SpecCreateDriver == InitCreateDriver /\ [][NextCreateDriver]_vars

(***************************************************************************)
(* search.py and the search functions of the two backends.  A result page  *)
(* is the list of the elements the selector matches: a "hit" has a title   *)
(* and a link, an "untitled" one has no title, and the link of an "own"    *)
(* one leads to the search engine itself.                                  *)
(***************************************************************************)
\* ENGINES, search.py:20
Engines == {"google", "bing", "duckduckgo"}

\* the engine argument of search_with_selenium and search_with_zendriver,
\* which is any string
EngineInputs == Engines \cup {"yahoo"}

MaxResults == 2

MaxElements == 2

\* --max-results is any integer, search.py:57
MaxResultsInputs == -1..MaxResults

ElementKinds == {"hit", "untitled", "own"}

ElementLists == UNION {[1..n -> ElementKinds] : n \in 0..MaxElements}

\* s[:n] of Python
Slice(s, n) ==
  LET stop == IF n >= Len(s) THEN Len(s)
              ELSE IF n >= 0 THEN n
              ELSE IF Len(s) + n >= 0 THEN Len(s) + n
              ELSE 0
  IN  SubSeq(s, 1, stop)

\* selenium_backend.py:93-100: each search function starts from a result
\* with its own engine name
InitialSearchResult(query, e) ==
  [success |-> FALSE, query |-> query, engine |-> e, results |-> <<>>,
   metadata |-> EmptyDict, error |-> Null]

\* search.py:34
UnknownEngine(e) == [success |-> FALSE, error |-> Some(<<"Unknown engine: ", e>>)]

NoResultsFound == <<"No results found">>

\* the elements a search function passes over: "if not title: continue" and
\* "if not url or 'google.com' in url: continue", selenium_backend.py:126-141
\* and zendriver_backend.py:153-163; "if title and url" for the other engines
Skipped(e, kind) ==
  IF e = "google" THEN kind \in {"untitled", "own"} ELSE kind = "untitled"

\* the loop of selenium_backend.search_google, lines 123-161, which stops
\* after the append that brings the list to max_results entries
RECURSIVE CollectGoogle(_, _, _, _)
CollectGoogle(elements, i, results, limit) ==
  IF i > Len(elements) THEN results
  ELSE IF Skipped("google", elements[i])
  THEN CollectGoogle(elements, i + 1, results, limit)
  ELSE IF Len(results) + 1 >= limit THEN Append(results, elements[i])
  ELSE CollectGoogle(elements, i + 1, Append(results, elements[i]), limit)

\* the list "results" of the search function: selenium_backend.py:119-161,
\* 224-243 and 306-328, and what the script of page.evaluate returns,
\* zendriver_backend.py:140-180 and 250-277
Found(b, e, elements, limit) ==
  IF b = "zendriver"
  THEN SelectSeq(elements, LAMBDA kind : ~Skipped(e, kind))
  ELSE IF e = "google"
  THEN CollectGoogle(Slice(elements, 2 * limit), 1, <<>>, limit)
  ELSE SelectSeq(Slice(elements, limit), LAMBDA kind : ~Skipped(e, kind))

\* result["results"]: selenium_backend.py:163, zendriver_backend.py:185
ResultsOfUncut(b, found, limit) == found
ResultsOf(b, found, limit) ==
  IF b = "zendriver" THEN Slice(found, limit) ELSE found

\* result["success"] = len(results) > 0, selenium_backend.py:164 and
\* zendriver_backend.py:186
SuccessOf(found) == Len(found) > 0

\* if not results: result["error"] = "No results found", lines 171-172
NoResultsErrorNever(found) == Null
NoResultsError(found) == IF found = <<>> THEN Some(NoResultsFound) ELSE Null

\* selenium_backend.py:165-169 and zendriver_backend.py:187-191
SearchMetadata(b, listed) ==
  [search_time_ms |-> Elapsed, result_count |-> Len(listed), backend |-> b]

\* search.py main, lines 50-70: --backend and --engine, and the engine
\* argument of the two dispatch functions called directly
InitSearch ==
  /\ pc = "dispatch"
  /\ script = "search"
  /\ requested \in Backends
  /\ engine \in EngineInputs
  /\ max_results \in MaxResultsInputs
  /\ backend = "none"
  /\ has_undetected \in BOOLEAN
  /\ use_undetected = TRUE
  /\ use_profile = TRUE
  /\ max_content_length = 0
  /\ calls = <<>>
  /\ loaded = Null
  /\ driver = Null
  /\ response = Null
  /\ sessions = {}
  /\ stopped = {}
  /\ thrown = Null
  /\ TruncateIdle
  /\ ExtractIdle
  /\ FilterIdle
  /\ MarkdownIdle

\* search_with_zendriver and search_with_selenium, search.py:23-47: backend
\* is the module whose search function is called, and the function is the
\* one of the engine in its initial result
SearchDispatch ==
  /\ pc = "dispatch"
  /\ IF requested = "zendriver" /\ engine \in {"google", "bing"}
     THEN /\ backend' = "zendriver"
          /\ response' = InitialSearchResult("q", engine)
          /\ pc' = "create"
     ELSE IF engine \in {"google", "bing", "duckduckgo"}
     THEN /\ backend' = "selenium"
          /\ response' = InitialSearchResult("q", engine)
          /\ pc' = "create"
     ELSE /\ backend' = "none"
          /\ response' = UnknownEngine(engine)
          /\ pc' = "returned"
  /\ UNCHANGED <<callVars, loaded, calls, driver, sessions, stopped, thrown,
                 pipelineVars>>

\* selenium_backend.py:110-172 and zendriver_backend.py:130-194: the wait
\* for the results swallows its exceptions; find_elements and evaluate may
\* raise, and evaluate may return something that is not a list
FindResults ==
  /\ pc = "find"
  /\ \E elements \in ElementLists :
       /\ loaded' = Some(elements)
       /\ \/ /\ \E e \in Exceptions : Raise(e)
             /\ UNCHANGED response
          \/ \E is_list \in BOOLEAN :
               /\ is_list \/ backend = "zendriver"
               /\ LET found == IF is_list
                               THEN Found(backend, response.engine, elements,
                                          max_results)
                               ELSE <<>>
                      listed == ResultsOf(backend, found, max_results)
                  IN  response' =
                        [response EXCEPT
                           !.results = listed,
                           !.success = SuccessOf(found),
                           !.metadata = SearchMetadata(backend, listed),
                           !.error = NoResultsError(found)]
               /\ pc' = "finally"
               /\ UNCHANGED thrown
  /\ UNCHANGED <<callVars, backend, calls, driver, sessions, stopped,
                 pipelineVars>>

NextSearch ==
  \/ SearchDispatch
  \/ CreateDriver
  \/ UcChrome
  \/ UcSetTimeout
  \/ UcExecuteCdp
  \/ Chrome
  \/ SetTimeout
  \/ ZdStart
  \/ Get
  \/ FindResults
  \/ Except
  \/ Finally

SpecSearch == InitSearch /\ [][NextSearch]_vars

(***************************************************************************)
(* The fetch and search functions of both backends, called by fetch.py and *)
(* search.py.                                                              *)
(***************************************************************************)
InitBackends == InitFetch \/ InitSearch

NextBackends == NextFetch \/ NextSearch

SpecBackends == InitBackends /\ [][NextBackends]_vars

(***************************************************************************)
(* Properties of truncate_content, stated on the input and the results     *)
(* without the operators of the model above.                               *)
(***************************************************************************)
EndsWith(s, suffix) ==
  /\ Len(s) >= Len(suffix)
  /\ SubSeq(s, Len(s) - Len(suffix) + 1, Len(s)) = suffix

\* the first n characters of the input followed by the marker
Kept(n) == SubSeq(content, 1, n) \o Marker

TooLong == Len(content) > max_length

\* a two-character delimiter lies at 0-based position i inside the first
\* max_length characters of the input
Inside(i) == i >= 0 /\ i + 2 <= max_length /\ i + 2 <= Len(content)

ParaAt(i) == Inside(i) /\ content[i + 1] = NL /\ content[i + 2] = NL

SentenceAt(i) ==
  /\ Inside(i)
  /\ \/ content[i + 1] \in {".", "?", "!"} /\ content[i + 2] = " "
     \/ content[i + 1] = "." /\ content[i + 2] = NL

Positions == 0..Len(content)

\* position i is beyond 0.8 * max_length
Beyond(i) == 10 * i > 8 * max_length

LastParaIs(p) == ParaAt(p) /\ \A i \in Positions : ParaAt(i) => i <= p

LastSentenceIs(q) == SentenceAt(q) /\ \A i \in Positions : SentenceAt(i) => i <= q

NoParaQualifies == \A i \in Positions : ParaAt(i) => ~Beyond(i)

NoSentenceQualifies == \A i \in Positions : SentenceAt(i) => ~Beyond(i)

Truncated == pc \in {"truncated", "retruncated"}

\* C1: content no longer than the limit is returned exactly as given, with
\* no marker appended.
C1_ShortUnchanged ==
  (Truncated /\ Len(content) <= max_length) => result = content

C1_Witness ==
  /\ pc = "truncated"
  /\ Len(content) = max_length
  /\ max_length > 0
  /\ result = content

\* C2: content longer than the limit gives a result that ends with the
\* marker and is at most the limit plus the marker's length long.
C2_MarkedAndBounded ==
  (Truncated /\ TooLong) =>
     /\ EndsWith(result, Marker)
     /\ Len(result) <= max_length + Len(Marker)

C2_Witness ==
  /\ pc = "truncated"
  /\ TooLong
  /\ max_length > 0
  /\ Len(result) = max_length + Len(Marker)

\* C3 as stated: truncating the result of a truncation again with the same
\* limit gives that result back.
C3_Idempotent == pc = "retruncated" => again = result

\* the first truncation kept exactly max_length - 1 characters, the last of
\* them a "?" or "!" (a sentence cut at position max_length - 2)
CutAfterQuestionAtEnd ==
  /\ TooLong
  /\ max_length >= 2
  /\ result = Kept(max_length - 1)
  /\ content[max_length - 1] \in {"?", "!"}

\* C3 amended: truncation is idempotent except when the first truncation
\* cut right after a "?" or "!" at position max_length - 2.
C3_IdempotentExceptQuestionAtEnd ==
  (pc = "retruncated" /\ ~CutAfterQuestionAtEnd) => again = result

C3_Witness ==
  /\ pc = "retruncated"
  /\ TooLong
  /\ max_length >= 2
  /\ result = Kept(max_length - 1)
  /\ content[max_length - 1] = "."
  /\ again = result

\* C4: when the last paragraph break inside the first max_length characters
\* lies beyond 0.8 * max_length, the cut is made there, also when a sentence
\* delimiter lies later.
C4_ParagraphFirst ==
  \A p \in Positions :
     (Truncated /\ TooLong /\ LastParaIs(p) /\ Beyond(p)) => result = Kept(p)

C4_Witness ==
  /\ pc = "truncated"
  /\ TooLong
  /\ \E p, q \in Positions :
        LastParaIs(p) /\ Beyond(p) /\ SentenceAt(q) /\ q > p /\ result = Kept(p)

\* C5: when no paragraph break qualifies and the latest sentence delimiter
\* lies beyond 0.8 * max_length, the cut falls right after its punctuation.
C5_SentenceCut ==
  \A q \in Positions :
     (Truncated /\ TooLong /\ NoParaQualifies /\ LastSentenceIs(q) /\ Beyond(q))
        => result = Kept(q + 1)

C5_Witness ==
  /\ pc = "truncated"
  /\ TooLong
  /\ NoParaQualifies
  /\ \E p, q \in Positions :
        ParaAt(p) /\ LastSentenceIs(q) /\ Beyond(q) /\ content[q + 1] = "!"
        /\ result = Kept(q + 1)

\* C6: when neither a paragraph break nor a sentence delimiter qualifies,
\* the result is the first max_length characters followed by the marker.
C6_HardCut ==
  (Truncated /\ TooLong /\ NoParaQualifies /\ NoSentenceQualifies)
     => result = Kept(max_length)

C6_Witness ==
  /\ pc = "truncated"
  /\ TooLong
  /\ \E q \in Positions : SentenceAt(q) /\ 10 * q = 8 * max_length
  /\ NoParaQualifies
  /\ NoSentenceQualifies
  /\ result = Kept(max_length)

(***************************************************************************)
(* Properties of extract_main_content, stated on the parsed document, the  *)
(* filtered document (soup once the function has returned) and the         *)
(* returned fragment.                                                      *)
(***************************************************************************)
Returned == pc = "returned"

Nodes == 1..Len(html)

Tokens(e) == {e.class[i] : i \in 1..Len(e.class)}

\* the selectors of the locator in their priority order
Selectors == 1..9

Selects(s, e) ==
  CASE s = 1 -> e.name = "main"
    [] s = 2 -> e.name = "article"
    [] s = 3 -> e.role = <<"m", "a", "i", "n">>
    [] s = 4 -> e.id = <<"c", "o", "n", "t", "e", "n", "t">>
    [] s = 5 -> e.id = <<"m", "a", "i", "n">>
    [] s = 6 -> e.id = <<"m", "a", "i", "n", "-", "c", "o", "n", "t", "e", "n", "t">>
    [] s = 7 -> <<"c", "o", "n", "t", "e", "n", "t">> \in Tokens(e)
    [] s = 8 -> <<"p", "o", "s", "t">> \in Tokens(e)
    [] s = 9 -> <<"a", "r", "t", "i", "c", "l", "e">> \in Tokens(e)

\* the elements of the filtered document a selector matches
Matching(s) == {n \in soup : Selects(s, Element(n))}

Earliest(S) == CHOOSE n \in S : \A k \in S : n <= k

\* the fragment shows exactly the elements of S, in document order
FragmentIs(S) ==
  /\ {fragment[i] : i \in 1..Len(fragment)} = S
  /\ \A i, j \in 1..Len(fragment) : i < j => fragment[i] < fragment[j]

Shown(n) == \E i \in 1..Len(fragment) : fragment[i] = n

\* the part of the filtered document inside element x
Inner(x) == {n \in soup : Within(n, x)}

\* value contains word when case is ignored
Folded(t) == [i \in 1..Len(t) |-> Lower(t[i])]

Contains(value, word) ==
  \E i \in 1..Len(value), j \in 1..Len(value) :
     Folded(SubSeq(value, i, j)) = Folded(word)

\* an element of the table that one of the two removal rules names
DeniedKind(k) ==
  \/ \E i \in 1..Len(REMOVE_TAGS) : ElementTable[k].name = REMOVE_TAGS[i]
  \/ \E i \in 1..Len(REMOVE_PATTERNS) :
        \/ Contains(ElementTable[k].id, REMOVE_PATTERNS[i])
        \/ \E c \in Tokens(ElementTable[k]) : Contains(c, REMOVE_PATTERNS[i])

DeniedKinds == UNION {IF DeniedKind(k) THEN {k} ELSE {} : k \in Kinds}

Denied(n) == html[n].kind \in DeniedKinds

\* n is a denied element or lies inside one
InDenied(n) == \E a \in Nodes : Denied(a) /\ Within(n, a)

\* C7: the container is the first element, in document order, of the
\* earliest selector of the priority list that matches anything in the
\* filtered document.
C7_SelectorPriority ==
  \A s \in Selectors :
     (/\ Returned
      /\ Matching(s) # {}
      /\ \A t \in 1..(s - 1) : Matching(t) = {})
        => /\ main = Earliest(Matching(s))
           /\ FragmentIs(Inner(main))

C7_Witness ==
  /\ Returned
  /\ \E s, t \in Selectors :
        /\ s < t
        /\ main \in Matching(s)
        /\ \E m \in Matching(s) : m > main
        /\ \E n \in Matching(t) : n < main
  /\ FragmentIs(Inner(main))

\* C8 as stated: whenever the input has a <main> element, the returned
\* container is a <main> element.
C8_MainAlwaysWins ==
  (Returned /\ \E n \in Nodes : Element(n).name = "main")
     => /\ main # None
        /\ Element(main).name = "main"
        /\ FragmentIs(Inner(main))

\* C8 amended: whenever a <main> element survives the tag filter (it is
\* not denied and not inside a denied element), the returned container is
\* the first such <main> element, whatever other candidates exist.
C8_SurvivingMainWins ==
  LET mains == {n \in Nodes : Element(n).name = "main" /\ ~InDenied(n)}
  IN (Returned /\ mains # {})
        => /\ main = Earliest(mains)
           /\ FragmentIs(Inner(main))

C8_Witness ==
  /\ Returned
  /\ main # None
  /\ Element(main).name = "main"
  /\ \E n \in Nodes : n < main /\ Element(n).name = "main" /\ Denied(n)
  /\ \E n \in Nodes : n < main /\ ~InDenied(n) /\ \E s \in 2..9 : Selects(s, Element(n))
  /\ FragmentIs(Inner(main))

\* C9: when no selector matches, the first <body> of the filtered document
\* is returned, and the whole filtered document when it has no <body>; a
\* container is returned in every case.
C9_Fallback ==
  LET bodies == {n \in soup : Element(n).name = "body"}
  IN Returned =>
       /\ (\A s \in Selectors : Matching(s) = {}) =>
             /\ main = None
             /\ bodies # {} => FragmentIs(Inner(Earliest(bodies)))
             /\ bodies = {} => FragmentIs(soup)
       /\ \E x \in Nodes \cup {0} : FragmentIs(Inner(x))

C9_Witness ==
  /\ Returned
  /\ \A s \in Selectors : Matching(s) = {}
  /\ \A n \in Nodes : Element(n).name # "body"
  /\ soup # {}
  /\ soup # Nodes
  /\ FragmentIs(soup)

\* C10: no denied element, and nothing inside a denied element, is shown in
\* the returned fragment, whichever container was chosen.
C10_DeniedNeverShown ==
  Returned => \A n \in Nodes : InDenied(n) => ~Shown(n)

C10_Witness ==
  /\ Returned
  /\ main # None
  /\ \E n, d \in Nodes :
        /\ Denied(n)
        /\ ElementTable[html[n].kind].class # <<>>
        /\ Within(n, main)
        /\ html[d].parent = n
        /\ ~Denied(d)
        /\ ~Shown(n)
        /\ ~Shown(d)
  /\ fragment # <<>>

(***************************************************************************)
(* Properties of the tag filter.                                           *)
(***************************************************************************)
\* C11: removing by id/class pattern before removing by tag name, and
\* filtering the filtered document a second time, both give the filtered
\* document of the single tag-then-pattern pass.
C11_FilterCommutesAndIdempotent ==
  /\ pc \in {"swapped", "refiltered"} => swapped = soup
  /\ pc = "refiltered" => refiltered = soup

C11_Witness ==
  /\ pc = "refiltered"
  /\ \E n, m, k \in Nodes :
        /\ Element(n).name = "nav"
        /\ html[m].parent = n
        /\ Element(m).id # <<>>
        /\ Denied(m)
        /\ k \in soup
  /\ swapped = soup
  /\ refiltered = soup

(***************************************************************************)
(* Properties of the whitespace clean-up.                                  *)
(***************************************************************************)
Normalized == pc = "normalized"

\* the lines of a text that hold something other than whitespace
NonBlank(text) == SelectSeq(split(text), LAMBDA l : strip(l) # <<>>)

\* C12: the text returned by html_to_markdown never holds three newlines in
\* a row; a line of spaces only counts as a blank line.
C12_NoTripleNewline ==
  Normalized => \A i \in 0..Len(output) : ~OccursAt(output, <<NL, NL, NL>>, i)

C12_Witness ==
  /\ Normalized
  /\ \E i \in 1..Len(markdown) : OccursAt(markdown, <<"a", NL, " ", NL, NL>>, i - 1)
  /\ \E j \in 0..Len(output) : OccursAt(output, <<"a", NL, NL, "a">>, j)

\* C13: the non-blank lines of the returned text are the non-blank lines of
\* the rendered text with only their trailing whitespace removed, the
\* indentation of the first such line included.
C13_NonBlankLinesKept ==
  Normalized =>
    /\ Len(NonBlank(output)) = Len(NonBlank(markdown))
    /\ \A k \in 1..Len(NonBlank(output)) :
          NonBlank(output)[k] = rstrip(NonBlank(markdown)[k])

(***************************************************************************)
(* Properties of html_to_markdown.                                         *)
(***************************************************************************)
Converted == pc = "converted"

DomNodes == 1..Len(dom)

Occurs(s, sub) == \E i \in 0..Len(s) : OccursAt(s, sub, i)

\* C14: the text of a pre or code element is found unchanged, character for
\* character, between the fences of its block in the returned text.
C14_FencedTextVerbatim ==
  Converted =>
    \A n \in DomNodes :
      dom[n].name \in {"pre", "code"} /\ get_text(dom, n, FALSE) # NoText
        => Occurs(output, Fence \o <<NL>> \o get_text(dom, n, FALSE)
                            \o <<NL>> \o Fence)

\* an anchor the renderer is to drop: no link text, or no href to point to
Dropped(n) ==
  /\ resolved[n].name = "a"
  /\ get_text(resolved, n, TRUE) = NoText \/ get(resolved[n], "href") = NoText

\* C16: an anchor with empty link text, or with a missing or empty href,
\* adds nothing to the returned text: a document made of such anchors only
\* converts to the empty text.
C16_DroppedAnchorsLeaveNothing ==
  Converted /\ dom # <<>>
    /\ (\A n \in DomNodes : \E m \in DomNodes : Dropped(m) /\ Under(dom, n, m))
    => output = NoText

\* C17: the empty document converts to the empty text, whatever the base URL.
C17_EmptyInEmptyOut == Converted /\ dom = <<>> => output = NoText

C17_Witness ==
  /\ Converted
  /\ dom = <<>>
  /\ base_url # NoText
  /\ output = NoText

HasAttr(d, n, name, key) == d[n].name = name /\ key \in DOMAIN d[n].attrs

\* a URL with a scheme
Absolute(url) == urlsplit(url).scheme # ""

ExampleCom == <<"https", ":", "//", "example.com">>

\* the attribute of node n was resolved against the base URL: what was
\* absolute is unchanged, what was not is absolute now, and "/page" against
\* https://example.com is https://example.com/page
ResolvedAttr(n, key) ==
  LET before == dom[n].attrs[key]
      after == resolved[n].attrs[key]
  IN  /\ Absolute(after)
      /\ Absolute(before) => after = before
      /\ before = <<"/", "page">> /\ base_url = ExampleCom
           => after = ExampleCom \o <<"/", "page">>

\* C15: with a base URL every href of an anchor and every src of an image is
\* absolute when the document is rendered, and the links of the returned
\* text carry the resolved URL; with no base URL the document is rendered as
\* it was written.
C15_UrlsResolved ==
  Converted =>
    /\ base_url = NoText => resolved = dom
    /\ base_url # NoText =>
         \A n \in DomNodes :
           /\ HasAttr(dom, n, "a", "href") => ResolvedAttr(n, "href")
           /\ HasAttr(dom, n, "img", "src") => ResolvedAttr(n, "src")
           /\ HasAttr(dom, n, "a", "href") /\ get_text(dom, n, TRUE) # NoText
                => Occurs(output, <<"]", "(">> \o resolved[n].attrs.href
                                    \o <<")">>)

C15_Witness ==
  /\ Converted
  /\ base_url = ExampleCom
  /\ \E n, m \in DomNodes :
       /\ HasAttr(dom, n, "a", "href")
       /\ dom[n].attrs.href = <<"/", "page">>
       /\ dom[m].name = "#text" /\ dom[m].parent = n
       /\ Occurs(output, <<"[", "x", "]", "(">> \o ExampleCom
                           \o <<"/", "page", ")">>)
  /\ \E n \in DomNodes :
       /\ HasAttr(dom, n, "a", "href") \/ HasAttr(dom, n, "img", "src")
       /\ resolved[n].attrs # dom[n].attrs

(***************************************************************************)
(* Properties of fetch_page.                                               *)
(***************************************************************************)
Left == pc \in {"returned", "raised"}

Failed == thrown # Null

\* C18: when a fetch call is over, quit() or stop() has been invoked on
\* every browser session the call started.
C18_SessionsReleased == Left => sessions \subseteq stopped

SevenKeys ==
  {"success", "url", "final_url", "title", "content", "metadata", "error"}

\* C19: fetch_page of the selenium backend never leaves with an exception,
\* and what it returns has the seven keys success, url, final_url, title,
\* content, metadata and error.
C19_ReturnsSevenKeys ==
  backend = "selenium" =>
    /\ pc # "raised"
    /\ pc = "returned" => DOMAIN response = SevenKeys

C19_Witness ==
  /\ backend = "selenium"
  /\ pc = "returned"
  /\ Failed
  /\ driver # Null
  /\ driver[1] \in stopped
  /\ DOMAIN response = SevenKeys

\* C20: when a step of the fetch raised, the result has success false, no
\* content, and the error "<type of the exception>: <its message>".
C20_FailureResult ==
  pc = "returned" /\ Failed =>
    /\ response.success = FALSE
    /\ response.content = Null
    /\ response.error = Some(<<thrown[1].type, ":", " ">> \o thrown[1].msg)

C20_Witness ==
  /\ pc = "returned"
  /\ Failed
  /\ backend = "zendriver"
  /\ response.final_url # Null
  /\ response.content = Null
  /\ response.error # Null

(***************************************************************************)
(* Further properties of truncate_content.                                 *)
(***************************************************************************)
\* C26: the result for content longer than the limit is a prefix of the
\* content followed by the marker, and the prefix has at least 0.8 of
\* max_length and at most max_length characters.
C26_AtMostFifthDiscarded ==
  (Truncated /\ TooLong) =>
    \E n \in 0..max_length : result = Kept(n) /\ 10 * n >= 8 * max_length

C26_Witness ==
  /\ pc = "truncated"
  /\ TooLong
  /\ \E p \in Positions :
       /\ LastParaIs(p)
       /\ Beyond(p)
       /\ 10 * (p - 1) <= 8 * max_length
       /\ p < max_length
       /\ result = Kept(p)

(***************************************************************************)
(* Further properties of the renderer.                                     *)
(***************************************************************************)
\* the number of places where sub occurs in s
Occurrences(s, sub) == Cardinality({i \in 0..Len(s) : OccursAt(s, sub, i)})

\* the strings of the document that hold more than whitespace
TextNodes == {n \in DomNodes : dom[n].name = "#text" /\ strip(dom[n].text) # NoText}

\* node n renders its text with a syntax of its own: a heading, a
\* paragraph, a list item, or an anchor that has an href
Rendering(n) ==
  \/ dom[n].name \in {"h1", "h2", "h3", "h4", "h5", "h6", "p", "li"}
  \/ dom[n].name = "a" /\ get(dom[n], "href") # NoText

\* C30: the text of a heading, paragraph, list item or anchor occurs once in
\* what _simple_html_to_markdown returns: in a document whose only text is
\* one string below such an element, that text occurs exactly once.
C30_TextEmittedOnce ==
  Converted =>
    \A t \in TextNodes :
      TextNodes = {t}
        /\ (\E n \in DomNodes : n # t /\ Rendering(n) /\ Under(dom, t, n))
        => Occurrences(markdown, strip(dom[t].text)) = 1

(***************************************************************************)
(* Properties of create_driver.                                            *)
(***************************************************************************)
Created == script = "driver" /\ pc = "get"

CreateFailed == script = "driver" /\ pc = "except"

Undetected(profile) == [creator |-> "undetected", use_profile |-> profile]

Standard(profile) == [creator |-> "standard", use_profile |-> profile]

\* the messages that hold "session not created" or "cannot connect" in some
\* letter case
LockMessages == {SessionNotCreated, CannotConnect}

Printed == script = "fetch" /\ pc = "printed"

\* C28: in a successful result that fetch.py prints, content_length of the
\* metadata is the length of the content of the same result.
C28_ContentLengthIsLength ==
  Printed /\ response.success =>
    response.metadata.content_length = Len(response.content[1])

\* the markdown of the loaded page after the whitespace clean-up
NormalizedPage == CleanWhitespace(loaded[1].rendered)

\* C29: the content fetch.py prints is the normalized markdown of the page,
\* or a prefix of it of at most max_length characters followed by the
\* marker, so that it is never longer than max_length plus the marker.
C29_PrintedContentBounded ==
  Printed /\ response.success =>
    /\ Len(response.content[1]) <= max_content_length + Len(Marker)
    /\ \/ /\ response.content[1] = NormalizedPage
          /\ Len(NormalizedPage) <= max_content_length
       \/ \E n \in 0..max_content_length :
            response.content[1] = Prefix(NormalizedPage, n) \o Marker

C29_Witness ==
  /\ Printed
  /\ response.success
  /\ requested = "zendriver"
  /\ Len(NormalizedPage) > max_content_length
  /\ response.content[1] = Prefix(NormalizedPage, max_content_length) \o Marker

(***************************************************************************)
(* Properties of the results of the backends' fetch and search functions   *)
(* and of the dispatch of search.py.                                       *)
(***************************************************************************)
\* a fetch or search function of a backend has returned its result
BackendReturned == pc \in {"returned", "printed"} /\ backend \in Backends

\* search_with_selenium or search_with_zendriver has returned
SearchReturned == script = "search" /\ pc = "returned"

\* C21: the metadata of every result a backend function returns names the
\* backend that produced the result.
C21_MetadataNamesBackend ==
  BackendReturned =>
    /\ "backend" \in DOMAIN response.metadata
    /\ response.metadata.backend = backend

\* C22: every result the dispatch of search.py returns has the fields
\* success, query, engine, results and metadata, and its engine is the
\* requested engine.
C22_SearchResultFields ==
  SearchReturned =>
    /\ {"success", "query", "engine", "results", "metadata"}
         \subseteq DOMAIN response
    /\ response.results \in Seq(ElementKinds)
    /\ response.engine = engine

\* C23: a search result with success = True has at least one and at most
\* max_results entries.
C23_SuccessfulSearchBounded ==
  SearchReturned /\ response.success =>
    /\ response.results # <<>>
    /\ Len(response.results) <= max_results

\* C24: the zendriver backend serves google and bing by its own functions
\* and duckduckgo by the selenium function, whose result names the backend
\* "selenium" in its metadata; the selenium backend serves every engine by
\* its own function of that engine.
C24_SearchDispatch ==
  SearchReturned /\ engine \in Engines =>
    /\ requested = "zendriver" /\ engine \in {"google", "bing"} =>
         backend = "zendriver" /\ response.engine = engine
    /\ requested = "zendriver" /\ engine = "duckduckgo" =>
         /\ backend = "selenium" /\ response.engine = engine
         /\ "backend" \in DOMAIN response.metadata
         /\ response.metadata.backend = "selenium"
    /\ requested = "selenium" =>
         backend = "selenium" /\ response.engine = engine

\* the dispatch alone: which backend's function of which engine has run
DispatchedToMatchingFunction ==
  SearchReturned /\ engine \in Engines =>
    /\ response.engine = engine
    /\ backend = IF requested = "zendriver" /\ engine # "duckduckgo"
                 THEN "zendriver" ELSE "selenium"

\* C27: in every result a backend function returns, success is True exactly
\* when error is null.
C27_SuccessIffNoError ==
  BackendReturned => (response.success <=> response.error = Null)

C27_Witness ==
  /\ BackendReturned
  /\ script = "search"
  /\ ~response.success
  /\ response.error = Some(NoResultsFound)
  /\ loaded # Null /\ loaded[1] # <<>>

====
